---- MODULE Spec2Model ----
(***************************************************************************)
(* Model of the JSON comparison engine of json-comparison-utility          *)
(* (src/src/utils/json_comparison.py): flatten_json, compare_json_objects  *)
(* and compare_json_lists, over a tagged representation of Python values.  *)
(***************************************************************************)
EXTENDS Integers, Sequences, FiniteSets, TLC

(***************************************************************************)
(* Python str.  A str is a sequence of one-character strings; the order of *)
(* two str values is Python's: lexicographic by Unicode code point.        *)
(***************************************************************************)
CodePoint ==
    ("." :> 46) @@
    ("0" :> 48) @@ ("1" :> 49) @@ ("2" :> 50) @@ ("3" :> 51) @@ ("4" :> 52) @@
    ("5" :> 53) @@ ("6" :> 54) @@ ("7" :> 55) @@ ("8" :> 56) @@ ("9" :> 57) @@
    ("F" :> 70) @@ ("N" :> 78) @@ ("T" :> 84) @@
    ("[" :> 91) @@ ("]" :> 93) @@ ("_" :> 95) @@
    ("a" :> 97) @@ ("b" :> 98) @@ ("c" :> 99) @@ ("d" :> 100) @@ ("e" :> 101) @@
    ("f" :> 102) @@ ("g" :> 103) @@ ("h" :> 104) @@ ("i" :> 105) @@
    ("k" :> 107) @@ ("l" :> 108) @@ ("m" :> 109) @@ ("n" :> 110) @@ ("o" :> 111) @@
    ("r" :> 114) @@ ("s" :> 115) @@ ("t" :> 116) @@ ("u" :> 117) @@
    ("v" :> 118) @@ ("y" :> 121)

\* a < b for two str values
StrLess(a, b) ==
    \E i \in 1..(Len(b)) :
        /\ \A j \in 1..(i - 1) : j <= Len(a) /\ a[j] = b[j]
        /\ i - 1 <= Len(a)
        /\ \/ i = Len(a) + 1
           \/ i <= Len(a) /\ CodePoint[a[i]] < CodePoint[b[i]]

\* sorted(S) with the order reversed
RECURSIVE sorted_descending(_)
sorted_descending(S) ==
    IF S = {} THEN << >>
    ELSE LET m == CHOOSE x \in S : \A y \in S \ {x} : StrLess(y, x)
         IN  <<m>> \o sorted_descending(S \ {m})

\* sorted(S) for a set S of str values
RECURSIVE sorted(_)
sorted(S) ==
    IF S = {} THEN << >>
    ELSE LET m == CHOOSE x \in S : \A y \in S \ {x} : StrLess(x, y)
         IN  <<m>> \o sorted(S \ {m})

Digit == <<"0", "1", "2", "3", "4", "5", "6", "7", "8", "9">>

\* str(n) for an int n >= 0
RECURSIVE IntToStr(_)
IntToStr(n) ==
    IF n < 10 THEN <<Digit[n + 1]>>
    ELSE IntToStr(n \div 10) \o <<Digit[(n % 10) + 1]>>

(***************************************************************************)
(* Python values as decoded by json.loads: <<tag, payload>>.               *)
(*   null  : None                  bool  : TRUE / FALSE                    *)
(*   int   : the integer           float : twice the number (3 is 1.5)     *)
(*   str   : the str               arr   : list, a sequence of values      *)
(*   obj   : dict, the sequence of <<key, value>> items in insertion order *)
(***************************************************************************)
Tag(x) == x[1]
Val(x) == x[2]

PyNone == <<"null", 0>>
PyBool(b) == <<"bool", b>>
PyInt(n) == <<"int", n>>
PyFloat(h) == <<"float", h>>
PyStr(s) == <<"str", s>>
PyList(items) == <<"arr", items>>
PyDict(items) == <<"obj", items>>

IsNumber(x) == Tag(x) \in {"bool", "int", "float"}
IsContainer(x) == Tag(x) \in {"obj", "arr"}

\* twice the numeric value of a bool, int or float
Twice(x) ==
    CASE Tag(x) = "bool" -> (IF Val(x) THEN 2 ELSE 0)
      [] Tag(x) = "int" -> 2 * Val(x)
      [] Tag(x) = "float" -> Val(x)

\* Python's == on two values: numbers compare by numeric value across
\* bool, int and float; anything else needs the same type and value.
RECURSIVE PyEq(_, _)
PyEq(x, y) ==
    IF IsNumber(x) /\ IsNumber(y) THEN Twice(x) = Twice(y)
    ELSE IF Tag(x) # Tag(y) THEN FALSE
    ELSE IF Tag(x) = "arr" THEN
        /\ Len(Val(x)) = Len(Val(y))
        /\ \A i \in 1..Len(Val(x)) : PyEq(Val(x)[i], Val(y)[i])
    ELSE IF Tag(x) = "obj" THEN
        /\ Len(Val(x)) = Len(Val(y))
        /\ \A i \in 1..Len(Val(x)) : \E j \in 1..Len(Val(y)) :
               Val(x)[i][1] = Val(y)[j][1] /\ PyEq(Val(x)[i][2], Val(y)[j][2])
    ELSE Val(x) = Val(y)

\* dict helpers: `k in d` and d[k]
HasKey(d, k) == \E i \in 1..Len(Val(d)) : Val(d)[i][1] = k
GetItem(d, k) == Val(d)[CHOOSE i \in 1..Len(Val(d)) : Val(d)[i][1] = k][2]

(***************************************************************************)
(* flatten_json: the flattened mapping is a function from path to value.   *)
(***************************************************************************)
EmptyMap == << >>

\* dict.update / item assignment: entries of g replace those of f
Update(f, g) ==
    [p \in (DOMAIN f) \cup (DOMAIN g) |-> IF p \in DOMAIN g THEN g[p] ELSE f[p]]

Separator == <<".">>

\* new_key for a dict item
DictKey(prefix, key) ==
    IF prefix # << >> THEN prefix \o Separator \o key ELSE key

\* new_key for the list item at 0-based index i
ListKey(prefix, i) ==
    IF prefix # << >> THEN prefix \o <<"[">> \o IntToStr(i) \o <<"]">>
    ELSE <<"[">> \o IntToStr(i) \o <<"]">>

RECURSIVE flatten_json(_, _)
RECURSIVE FlattenItems(_, _, _)

\* the mapping after the loop body has run for the first n items
FlattenItems(nested_json, prefix, n) ==
    IF n = 0 THEN EmptyMap
    ELSE LET flattened == FlattenItems(nested_json, prefix, n - 1)
             isDict == Tag(nested_json) = "obj"
             value == IF isDict THEN Val(nested_json)[n][2] ELSE Val(nested_json)[n]
             new_key == IF isDict THEN DictKey(prefix, Val(nested_json)[n][1])
                        ELSE ListKey(prefix, n - 1)
         IN  IF IsContainer(value)
             THEN Update(flattened, flatten_json(value, new_key))
             ELSE Update(flattened, new_key :> value)

\* flatten_json keeping a root scalar under its prefix
flatten_json_scalar_entry(nested_json, prefix) ==
    IF IsContainer(nested_json)
    THEN FlattenItems(nested_json, prefix, Len(Val(nested_json)))
    ELSE prefix :> nested_json

flatten_json(nested_json, prefix) ==
    IF IsContainer(nested_json)
    THEN FlattenItems(nested_json, prefix, Len(Val(nested_json)))
    ELSE EmptyMap

\* str(x) for a scalar x (floats print with one decimal, as 1.0 and 1.5)
str(x) ==
    CASE Tag(x) = "null" -> <<"N", "o", "n", "e">>
      [] Tag(x) = "bool" -> (IF Val(x) THEN <<"T", "r", "u", "e">>
                             ELSE <<"F", "a", "l", "s", "e">>)
      [] Tag(x) = "int" -> IntToStr(Val(x))
      [] Tag(x) = "float" -> IntToStr(Val(x) \div 2) \o <<".">>
                             \o (IF Val(x) % 2 = 0 THEN <<"0">> ELSE <<"5">>)
      [] Tag(x) = "str" -> Val(x)

(***************************************************************************)
(* Difference records: a Python dict with str keys, modelled as a function *)
(* from field name to value.                                               *)
(***************************************************************************)
K_key == <<"k", "e", "y">>
K_left_value == <<"l", "e", "f", "t", "_", "v", "a", "l", "u", "e">>
K_right_value == <<"r", "i", "g", "h", "t", "_", "v", "a", "l", "u", "e">>
K_status == <<"s", "t", "a", "t", "u", "s">>

S_different == <<"d", "i", "f", "f", "e", "r", "e", "n", "t">>
S_left_only == <<"l", "e", "f", "t", "_", "o", "n", "l", "y">>
S_right_only == <<"r", "i", "g", "h", "t", "_", "o", "n", "l", "y">>

\* a dict display {k1: v1, k2: v2, ...}: later items replace earlier ones
RECURSIVE DictDisplay(_)
DictDisplay(items) ==
    IF items = << >> THEN EmptyMap
    ELSE Update(DictDisplay(SubSeq(items, 1, Len(items) - 1)),
                items[Len(items)][1] :> items[Len(items)][2])

\* flat.get(key, None)
Get(flat, key) == IF key \in DOMAIN flat THEN flat[key] ELSE PyNone

\* the differences list after the loop body has run for the first n keys
RECURSIVE ObjectDiffs(_, _, _, _)
ObjectDiffs(keys, flat1, flat2, n) ==
    IF n = 0 THEN << >>
    ELSE LET differences == ObjectDiffs(keys, flat1, flat2, n - 1)
             key == keys[n]
             val1 == Get(flat1, key)
             val2 == Get(flat2, key)
             status == IF key \in DOMAIN flat1 /\ key \in DOMAIN flat2
                       THEN S_different
                       ELSE IF key \in DOMAIN flat1 THEN S_left_only
                       ELSE S_right_only
         IN  IF ~PyEq(val1, val2)
             THEN Append(differences,
                         DictDisplay(<< <<K_key, PyStr(key)>>,
                                        <<K_left_value, val1>>,
                                        <<K_right_value, val2>>,
                                        <<K_status, PyStr(status)>> >>))
             ELSE differences

\* compare_json_objects walking the left mapping's keys only
compare_json_objects_left_keys(obj1, obj2) ==
    LET flat1 == flatten_json(obj1, << >>)
        flat2 == flatten_json(obj2, << >>)
        keys == sorted(DOMAIN flat1)
    IN  ObjectDiffs(keys, flat1, flat2, Len(keys))

compare_json_objects(obj1, obj2) ==
    LET flat1 == flatten_json(obj1, << >>)
        flat2 == flatten_json(obj2, << >>)
        all_keys == (DOMAIN flat1) \cup (DOMAIN flat2)
        keys == sorted(all_keys)
    IN  ObjectDiffs(keys, flat1, flat2, Len(keys))

(***************************************************************************)
(* compare_json_lists                                                      *)
(***************************************************************************)
\* Lookup without the `if join_key in item` filter
Lookup_unfiltered(list, join_key) ==
    LET items == Val(list)
        keyed == 1..Len(items)
        name(i) == str(IF HasKey(items[i], join_key)
                       THEN GetItem(items[i], join_key) ELSE PyNone)
    IN  [k \in {name(i) : i \in keyed} |->
            items[CHOOSE i \in keyed :
                    name(i) = k /\ \A j \in keyed : name(j) = k => j <= i]]

\* Lookup keeping the first of several items with the same str
Lookup_first(list, join_key) ==
    LET items == Val(list)
        keyed == {i \in 1..Len(items) : HasKey(items[i], join_key)}
        name(i) == str(GetItem(items[i], join_key))
    IN  [k \in {name(i) : i \in keyed} |->
            items[CHOOSE i \in keyed :
                    name(i) = k /\ \A j \in keyed : name(j) = k => i <= j]]

\* {str(item.get(join_key)): item for item in list if join_key in item}:
\* of several items with the same str, the last one stays
Lookup(list, join_key) ==
    LET items == Val(list)
        keyed == {i \in 1..Len(items) : HasKey(items[i], join_key)}
        name(i) == str(GetItem(items[i], join_key))
    IN  [k \in {name(i) : i \in keyed} |->
            items[CHOOSE i \in keyed :
                    name(i) = k /\ \A j \in keyed : name(j) = k => j <= i]]

\* for diff in obj_diff: diff[join_key] = key
Attach(obj_diff, join_key, key) ==
    [i \in 1..Len(obj_diff) |-> Update(obj_diff[i], join_key :> PyStr(key))]

\* ListDiffs pairing two elements only when their join values are equal
RECURSIVE ListDiffs_typed(_, _, _, _, _)
ListDiffs_typed(keys, dict1, dict2, join_key, n) ==
    IF n = 0 THEN << >>
    ELSE LET differences == ListDiffs_typed(keys, dict1, dict2, join_key, n - 1)
             key == keys[n]
             obj1 == Get(dict1, key)
             obj2 == Get(dict2, key)
             unpaired == \/ obj1 = PyNone
                         \/ obj2 = PyNone
                         \/ GetItem(obj1, join_key) # GetItem(obj2, join_key)
         IN  IF unpaired
             THEN LET status == IF obj2 = PyNone THEN S_left_only
                                ELSE S_right_only
                  IN  Append(differences,
                             DictDisplay(<< <<K_key, PyStr(join_key)>>,
                                            <<join_key, PyStr(key)>>,
                                            <<K_left_value, obj1>>,
                                            <<K_right_value, obj2>>,
                                            <<K_status, PyStr(status)>> >>))
             ELSE differences
                  \o Attach(compare_json_objects(obj1, obj2), join_key, key)

\* the differences list after the loop body has run for the first n keys
RECURSIVE ListDiffs(_, _, _, _, _)
ListDiffs(keys, dict1, dict2, join_key, n) ==
    IF n = 0 THEN << >>
    ELSE LET differences == ListDiffs(keys, dict1, dict2, join_key, n - 1)
             key == keys[n]
             obj1 == Get(dict1, key)
             obj2 == Get(dict2, key)
         IN  IF obj1 = PyNone \/ obj2 = PyNone
             THEN LET status == IF obj2 = PyNone THEN S_left_only
                                ELSE S_right_only
                  IN  Append(differences,
                             DictDisplay(<< <<K_key, PyStr(join_key)>>,
                                            <<join_key, PyStr(key)>>,
                                            <<K_left_value, obj1>>,
                                            <<K_right_value, obj2>>,
                                            <<K_status, PyStr(status)>> >>))
             ELSE differences
                  \o Attach(compare_json_objects(obj1, obj2), join_key, key)

\* compare_json_lists walking the left lookup's keys, then the right-only ones
compare_json_lists_left_first(list1, list2, join_key) ==
    IF Val(list1) = << >> \/ Val(list2) = << >> THEN << >>
    ELSE LET dict1 == Lookup(list1, join_key)
             dict2 == Lookup(list2, join_key)
             keys == sorted(DOMAIN dict1) \o sorted((DOMAIN dict2) \ (DOMAIN dict1))
         IN  ListDiffs(keys, dict1, dict2, join_key, Len(keys))

\* compare_json_lists without the early return for an empty list
compare_json_lists_no_early_return(list1, list2, join_key) ==
    LET dict1 == Lookup(list1, join_key)
        dict2 == Lookup(list2, join_key)
        all_keys == (DOMAIN dict1) \cup (DOMAIN dict2)
        keys == sorted(all_keys)
    IN  ListDiffs(keys, dict1, dict2, join_key, Len(keys))

compare_json_lists(list1, list2, join_key) ==
    IF Val(list1) = << >> \/ Val(list2) = << >> THEN << >>
    ELSE LET dict1 == Lookup(list1, join_key)
             dict2 == Lookup(list2, join_key)
             all_keys == (DOMAIN dict1) \cup (DOMAIN dict2)
             keys == sorted(all_keys)
         IN  ListDiffs(keys, dict1, dict2, join_key, Len(keys))

(***************************************************************************)
(* get_all_keys, get_potential_join_keys, is_json_list_of_objects          *)
(***************************************************************************)
RECURSIVE get_all_keys(_, _)
RECURSIVE AllKeysItems(_, _, _)

\* the key set after the loop body has run for the first n items
AllKeysItems(data, prefix, n) ==
    IF n = 0 THEN {}
    ELSE LET keys == AllKeysItems(data, prefix, n - 1)
             isDict == Tag(data) = "obj"
             value == IF isDict THEN Val(data)[n][2] ELSE Val(data)[n]
             new_key == IF isDict THEN DictKey(prefix, Val(data)[n][1])
                        ELSE ListKey(prefix, n - 1)
         IN  IF IsContainer(value)
             THEN keys \cup get_all_keys(value, new_key)
             ELSE keys \cup {new_key}

get_all_keys(data, prefix) ==
    IF IsContainer(data) THEN AllKeysItems(data, prefix, Len(Val(data))) ELSE {}

is_json_list_of_objects(data) ==
    Tag(data) = "arr" /\ Len(Val(data)) > 0 /\ Tag(Val(data)[1]) = "obj"

\* set(d.keys()) for a dict d
DictKeys(d) == {Val(d)[i][1] : i \in 1..Len(Val(d))}

\* data[:sample_size] for sample_size >= 0
Sample(data, sample_size) ==
    SubSeq(Val(data), 1, IF sample_size < Len(Val(data)) THEN sample_size ELSE Len(Val(data)))

\* get_keys_from_sample passing over the items that are not dicts
get_keys_from_sample_skip_scalars(data, sample_size) ==
    IF Tag(data) = "obj" THEN DictKeys(data)
    ELSE IF Tag(data) = "arr"
    THEN LET sample == SelectSeq(Sample(data, sample_size), LAMBDA x : Tag(x) = "obj")
         IN  IF sample # << >>
             THEN {k \in DictKeys(sample[1]) :
                      \A i \in 2..Len(sample) : k \in DictKeys(sample[i])}
             ELSE {}
    ELSE {}

\* the nested get_keys_from_sample, its free sample_size made a parameter
get_keys_from_sample(data, sample_size) ==
    IF Tag(data) = "obj" THEN DictKeys(data)
    ELSE IF is_json_list_of_objects(data)
    THEN LET sample == Sample(data, sample_size)
         IN  IF sample # << >>
             THEN {k \in DictKeys(sample[1]) :
                      \A i \in 2..Len(sample) : k \in DictKeys(sample[i])}
             ELSE {}
    ELSE {}

\* item.keys() raises AttributeError for a sampled item that is not a dict
get_keys_from_sample_raises(data, sample_size) ==
    /\ is_json_list_of_objects(data)
    /\ \E i \in 2..Len(Sample(data, sample_size)) : Tag(Sample(data, sample_size)[i]) # "obj"

K_name == <<"n", "a", "m", "e">>
K_code == <<"c", "o", "d", "e">>
K_uuid == <<"u", "u", "i", "d">>
K_id == <<"i", "d">>

priority_keys == <<K_id, K_name, K_key, K_code, K_uuid>>

InPriority(x) == \E i \in 1..Len(priority_keys) : priority_keys[i] = x

\* the same with the priority keys in the order of the priority list
SortedByListRank(potential_keys) ==
    SelectSeq(priority_keys, LAMBDA x : x \in potential_keys)
    \o sorted({x \in potential_keys : ~InPriority(x)})

\* sorted(potential_keys, key=lambda x: (x not in priority_keys, x))
SortedByPriority(potential_keys) ==
    sorted({x \in potential_keys : InPriority(x)})
    \o sorted({x \in potential_keys : ~InPriority(x)})

get_potential_join_keys(left_data, right_data, sample_size) ==
    LET left_keys == get_keys_from_sample(left_data, sample_size)
        right_keys == get_keys_from_sample(right_data, sample_size)
        potential_keys == left_keys \cap right_keys
    IN  SortedByPriority(potential_keys)

\* the call ends in the exception when either side's sampling raises
get_potential_join_keys_raises(left_data, right_data, sample_size) ==
    \/ get_keys_from_sample_raises(left_data, sample_size)
    \/ get_keys_from_sample_raises(right_data, sample_size)

DefaultSampleSize == 5

(***************************************************************************)
(* apply_filters (src/src/utils/display_utils.py)                          *)
(***************************************************************************)
\* apply_filters dropping the rows whose key starts with an excluded key
apply_filters_by_prefix(comparison_results, excluded_keys) ==
    LET excluded_set == {excluded_keys[i] : i \in 1..Len(excluded_keys)}
        starts(a, b) == Len(b) <= Len(a) /\ SubSeq(a, 1, Len(b)) = b
    IN  SelectSeq(comparison_results,
                  LAMBDA row : ~\E x \in excluded_set : starts(Val(row[K_key]), x))

apply_filters(comparison_results, excluded_keys) ==
    LET excluded_set == {excluded_keys[i] : i \in 1..Len(excluded_keys)}
    IN  SelectSeq(comparison_results, LAMBDA row : Val(row[K_key]) \notin excluded_set)

(***************************************************************************)
(* Inputs.  Documents are what the loader can hand over: any decoded JSON. *)
(***************************************************************************)
MaxLen == 1

\* all sequences over S of length 0..n
RECURSIVE SeqsUpTo(_, _)
SeqsUpTo(S, n) ==
    IF n = 0 THEN {<< >>}
    ELSE LET shorter == SeqsUpTo(S, n - 1)
         IN  shorter \cup {Append(q, x) : q \in shorter, x \in S}

Leaves == {PyNone, PyBool(TRUE), PyInt(1), PyFloat(2), PyStr(<<"1">>)}
InnerLeaves == {PyStr(<<"1">>)}

\* nested containers: {"b": x}, {} and lists of 0..MaxLen leaves
Inner ==
    {PyDict(<< <<(<<"b">>), x>> >>) : x \in InnerLeaves}
    \cup {PyDict(<< >>)}
    \cup {PyList(q) : q \in SeqsUpTo(InnerLeaves, MaxLen)}

TopKeys == {<<"a">>, <<"a", ".", "b">>}
FieldValues == Leaves \cup Inner

\* dicts over TopKeys, every insertion order
Objects ==
    {PyDict(<< >>)}
    \cup {PyDict(<< <<k, x>> >>) : k \in TopKeys, x \in FieldValues}
    \cup {PyDict(<< <<kk[1], x1>>, <<kk[2], x2>> >>) :
            kk \in {kp \in TopKeys \X TopKeys : kp[1] # kp[2]},
            x1 \in FieldValues, x2 \in FieldValues}

Docs ==
    Leaves \cup Objects
    \cup {PyList(q) : q \in SeqsUpTo(InnerLeaves \cup {PyDict(<< >>)}, MaxLen)}

VARIABLES left, right, join_key, sample_size, op, flattened, differences,
          all_keys, potential_join_keys, excluded_keys, filtered, raised

vars == <<left, right, join_key, sample_size, op, flattened, differences,
          all_keys, potential_join_keys, excluded_keys, filtered, raised>>

\* nothing has been called yet
NoResults ==
    /\ op = "init"
    /\ flattened = EmptyMap
    /\ differences = << >>
    /\ all_keys = {}
    /\ potential_join_keys = << >>
    /\ excluded_keys = << >>
    /\ filtered = << >>
    /\ raised = "none"

(***************************************************************************)
(* flatten_json on one document                                            *)
(***************************************************************************)
InitFlatten ==
    /\ left \in Docs
    /\ right = PyNone
    /\ join_key = << >>
    /\ sample_size = DefaultSampleSize
    /\ NoResults

Flatten ==
    /\ op = "init"
    /\ flattened' = flatten_json(left, << >>)
    /\ op' = "flatten_json"
    /\ UNCHANGED <<left, right, join_key, sample_size, differences,
                   all_keys, potential_join_keys, excluded_keys, filtered, raised>>

NextFlatten == Flatten

SpecFlatten == InitFlatten /\ [][NextFlatten]_vars

(***************************************************************************)
(* compare_json_objects on two documents                                   *)
(***************************************************************************)
Init ==
    /\ left \in Docs
    /\ right \in Docs
    /\ join_key = << >>
    /\ sample_size = DefaultSampleSize
    /\ NoResults

CompareObjects ==
    /\ op = "init"
    /\ differences' = compare_json_objects(left, right)
    /\ op' = "compare_json_objects"
    /\ UNCHANGED <<left, right, join_key, sample_size, flattened,
                   all_keys, potential_join_keys, excluded_keys, filtered, raised>>

Next == CompareObjects

Spec == Init /\ [][Next]_vars

(***************************************************************************)
(* Properties of flatten_json (checked under SpecFlatten)                  *)
(***************************************************************************)
\* number of scalar leaves of a document
RECURSIVE LeafCount(_)
RECURSIVE LeafSum(_, _)
LeafSum(x, n) ==
    IF n = 0 THEN 0
    ELSE LeafSum(x, n - 1)
         + LeafCount(IF Tag(x) = "obj" THEN Val(x)[n][2] ELSE Val(x)[n])
LeafCount(x) == IF IsContainer(x) THEN LeafSum(x, Len(Val(x))) ELSE 1

Flattened == op = "flatten_json"

\* C5: for every object or array document, the flattened mapping has one
\* entry per scalar leaf of the document, and no entry's value is an object
\* or an array.
C5_EveryLeafOnce ==
    Flattened /\ IsContainer(left) =>
        /\ Cardinality(DOMAIN flattened) = LeafCount(left)
        /\ \A p \in DOMAIN flattened : ~IsContainer(flattened[p])

\* C6 as stated: flattening a root scalar gives the single entry "" -> scalar.
C6_RootScalarEntry ==
    Flattened /\ ~IsContainer(left) => flattened = (<< >> :> left)

\* C6 amended: flattening a root scalar gives the empty mapping.
C6_RootScalarEmpty ==
    Flattened /\ ~IsContainer(left) => flattened = EmptyMap

C6_Witness == Flattened /\ left = PyInt(1) /\ flattened = EmptyMap

(***************************************************************************)
(* Properties of compare_json_objects (checked under Spec)                 *)
(***************************************************************************)
Compared == op = "compare_json_objects"

flat_left == flatten_json(left, << >>)
flat_right == flatten_json(right, << >>)

\* the paths the result reports
ReportedPaths == {Val(differences[i][K_key]) : i \in 1..Len(differences)}

\* C1: a path of either flattened mapping is reported exactly when the two
\* mappings differ there, a path absent on one side differing from any
\* value on the other side, null included.
C1_Completeness ==
    Compared =>
        \A p \in (DOMAIN flat_left) \cup (DOMAIN flat_right) :
            p \in ReportedPaths <=>
                \/ p \notin DOMAIN flat_left
                \/ p \notin DOMAIN flat_right
                \/ ~PyEq(flat_left[p], flat_right[p])

\* C2: two scalars at the same path that differ in type or in value are
\* reported with status 'different' (1 against 1.0, "1" against 1).
C2_StrictTypedEquality ==
    Compared =>
        \A p \in (DOMAIN flat_left) \cap (DOMAIN flat_right) :
            flat_left[p] # flat_right[p] =>
                \E i \in 1..Len(differences) :
                    /\ differences[i][K_key] = PyStr(p)
                    /\ differences[i][K_status] = PyStr(S_different)

SwapStatus(st) ==
    IF st = PyStr(S_left_only) THEN PyStr(S_right_only)
    ELSE IF st = PyStr(S_right_only) THEN PyStr(S_left_only)
    ELSE st

\* C3: comparing right against left reports the same paths in the same
\* order, with left_value and right_value exchanged and left_only and
\* right_only exchanged.
C3_Symmetry ==
    Compared =>
        LET swapped == compare_json_objects(right, left)
        IN  /\ Len(swapped) = Len(differences)
            /\ \A i \in 1..Len(differences) :
                   /\ swapped[i][K_key] = differences[i][K_key]
                   /\ swapped[i][K_left_value] = differences[i][K_right_value]
                   /\ swapped[i][K_right_value] = differences[i][K_left_value]
                   /\ swapped[i][K_status] = SwapStatus(differences[i][K_status])

HasStatus(st) ==
    \E i \in 1..Len(differences) : differences[i][K_status] = PyStr(st)

C3_Witness ==
    Compared /\ HasStatus(S_left_only) /\ HasStatus(S_different)

\* C4: the result is strictly ascending by path, and a record's status is
\* 'different', 'left_only' or 'right_only' exactly as its path is in both
\* flattened mappings, only the left one or only the right one.
C4_SortedAndClassified ==
    Compared =>
        /\ \A i \in 1..(Len(differences) - 1) :
               StrLess(Val(differences[i][K_key]), Val(differences[i + 1][K_key]))
        /\ \A i \in 1..Len(differences) :
               LET p == Val(differences[i][K_key])
                   st == differences[i][K_status]
               IN  /\ st = PyStr(S_different)
                         <=> p \in DOMAIN flat_left /\ p \in DOMAIN flat_right
                   /\ st = PyStr(S_left_only)
                         <=> p \in DOMAIN flat_left /\ p \notin DOMAIN flat_right
                   /\ st = PyStr(S_right_only)
                         <=> p \notin DOMAIN flat_left /\ p \in DOMAIN flat_right

C4_Witness ==
    /\ Compared
    /\ Len(differences) >= 3
    /\ HasStatus(S_left_only) /\ HasStatus(S_right_only) /\ HasStatus(S_different)

(***************************************************************************)
(* compare_json_lists on two lists of objects and a join key               *)
(***************************************************************************)
MaxElems == 3

JoinKeys == {K_id, K_key}

IdValues == {PyInt(1), PyStr(<<"1">>), PyInt(2)}
KeyValues == {PyInt(1)}

\* list elements: dicts with an optional "id" and an optional "key" field
Elements ==
    {PyDict(<< >>)}
    \cup {PyDict(<< <<K_id, x>> >>) : x \in IdValues}
    \cup {PyDict(<< <<K_key, y>> >>) : y \in KeyValues}
    \cup {PyDict(<< <<K_id, x>>, <<K_key, y>> >>) : x \in IdValues, y \in KeyValues}

Lists == {PyList(q) : q \in SeqsUpTo(Elements, MaxElems)}

InitLists ==
    /\ left \in Lists
    /\ right \in Lists
    /\ Len(Val(left)) + Len(Val(right)) <= MaxElems
    /\ join_key \in JoinKeys
    /\ sample_size = DefaultSampleSize
    /\ NoResults

CompareLists ==
    /\ op = "init"
    /\ differences' = compare_json_lists(left, right, join_key)
    /\ op' = "compare_json_lists"
    /\ UNCHANGED <<left, right, join_key, sample_size, flattened,
                   all_keys, potential_join_keys, excluded_keys, filtered, raised>>

NextLists == CompareLists

SpecLists == InitLists /\ [][NextLists]_vars

(***************************************************************************)
(* Properties of compare_json_lists (checked under SpecLists)              *)
(***************************************************************************)
ListsCompared ==
    op = "compare_json_lists" /\ Val(left) # << >> /\ Val(right) # << >>

dict_left == Lookup(left, join_key)
dict_right == Lookup(right, join_key)

\* a record restricted to the four fields of a difference record
Core(r) ==
    [f \in {K_key, K_left_value, K_right_value, K_status} |-> r[f]]

\* the records that carry join-key value k, in result order
RECURSIVE RecordsOf(_, _)
RecordsOf(k, n) ==
    IF n = 0 THEN << >>
    ELSE IF differences[n][join_key] = PyStr(k)
         THEN Append(RecordsOf(k, n - 1), differences[n])
         ELSE RecordsOf(k, n - 1)

\* C7: for a join-key value in both lookups, the records carrying it are
\* the records of compare_json_objects on the two elements, with key,
\* left_value, right_value and status unchanged.
C7_MatchedRecordsUnchanged ==
    ListsCompared =>
        \A k \in (DOMAIN dict_left) \cap (DOMAIN dict_right) :
            LET obj_diff == compare_json_objects(dict_left[k], dict_right[k])
                emitted == RecordsOf(k, Len(differences))
            IN  /\ Len(emitted) = Len(obj_diff)
                /\ \A i \in 1..Len(obj_diff) : Core(emitted[i]) = Core(obj_diff[i])

\* C8: for a join-key value in exactly one lookup, exactly one record carries
\* it; its 'key' is the join key name, its status names the side that has
\* the value, that side's value is the element and the other side's is null.
C8_UnmatchedRecord ==
    ListsCompared =>
        \A k \in (DOMAIN dict_left) \cup (DOMAIN dict_right) :
            k \notin (DOMAIN dict_left) \cap (DOMAIN dict_right) =>
                LET emitted == RecordsOf(k, Len(differences))
                    onLeft == k \in DOMAIN dict_left
                IN  /\ Len(emitted) = 1
                    /\ emitted[1][K_key] = PyStr(join_key)
                    /\ emitted[1][K_status] =
                           PyStr(IF onLeft THEN S_left_only ELSE S_right_only)
                    /\ emitted[1][K_left_value] =
                           (IF onLeft THEN dict_left[k] ELSE PyNone)
                    /\ emitted[1][K_right_value] =
                           (IF onLeft THEN PyNone ELSE dict_right[k])

\* the elements of a list that contain the join key, in list order
Keyed(list) == PyList(SelectSeq(Val(list), LAMBDA e : HasKey(e, join_key)))

\* a list kept non-empty by one element without the join key
Padded(list) == IF Val(list) = << >> THEN PyList(<<PyDict(<< >>)>>) ELSE list

Keyless(list) == {Val(list)[i] : i \in {j \in 1..Len(Val(list)) : ~HasKey(Val(list)[j], join_key)}}

\* C9: with both lists non-empty, elements without the join key leave no
\* trace: the result is the one obtained from the elements that contain the
\* join key, and no record has a keyless element as left_value or
\* right_value.
C9_KeylessElementsIgnored ==
    ListsCompared =>
        /\ differences =
               compare_json_lists(Padded(Keyed(left)), Padded(Keyed(right)), join_key)
        /\ \A i \in 1..Len(differences) :
               \A e \in Keyless(left) \cup Keyless(right) :
                   differences[i][K_left_value] # e /\ differences[i][K_right_value] # e

C9_Witness ==
    /\ ListsCompared
    /\ Keyless(left) # {} /\ Val(Keyed(left)) # << >>
    /\ Keyless(right) # {}
    /\ differences # << >>

\* a record that reports a whole element of one side
ElementRecord(r) == IsContainer(r[K_left_value]) \/ IsContainer(r[K_right_value])

ElementRecordFor(k) ==
    \E i \in 1..Len(differences) :
        differences[i][join_key] = PyStr(k) /\ ElementRecord(differences[i])

\* the str of the join-key values found on a list's elements
JoinNames(list) ==
    {str(GetItem(Val(Keyed(list))[i], join_key)) : i \in 1..Len(Val(Keyed(list)))}

\* C10: a left and a right element are paired exactly when the str of their
\* join-key values are equal: a value found on both sides (as int 1 and
\* str "1") yields no whole-element record, a value found on one side only
\* yields one for that side.
C10_PairedByString ==
    ListsCompared =>
        /\ \A k \in JoinNames(left) \cap JoinNames(right) : ~ElementRecordFor(k)
        /\ \A k \in JoinNames(left) \ JoinNames(right) :
               \E i \in 1..Len(differences) :
                   /\ differences[i][join_key] = PyStr(k)
                   /\ IsContainer(differences[i][K_left_value])
                   /\ differences[i][K_status] = PyStr(S_left_only)
        /\ \A k \in JoinNames(right) \ JoinNames(left) :
               \E i \in 1..Len(differences) :
                   /\ differences[i][join_key] = PyStr(k)
                   /\ IsContainer(differences[i][K_right_value])
                   /\ differences[i][K_status] = PyStr(S_right_only)

C10_Witness ==
    /\ ListsCompared
    /\ join_key = K_id
    /\ \E i \in 1..Len(Val(left)) :
           HasKey(Val(left)[i], K_id) /\ GetItem(Val(left)[i], K_id) = PyInt(1)
    /\ \E j \in 1..Len(Val(right)) :
           HasKey(Val(right)[j], K_id) /\ GetItem(Val(right)[j], K_id) = PyStr(<<"1">>)
    /\ \E i \in 1..Len(differences) :
           /\ differences[i][K_key] = PyStr(K_id)
           /\ differences[i][K_left_value] = PyInt(1)
           /\ differences[i][K_right_value] = PyStr(<<"1">>)
           /\ differences[i][K_status] = PyStr(S_different)

JoinValue(i) == Val(differences[i][join_key])

\* C11: the result is ascending by the str of the join-key value, so the
\* records of one value are contiguous and the groups ascend; the records of
\* a matched pair are, in order, those of compare_json_objects on the pair,
\* which ascend strictly by flattened path.
C11_SortedByJoinValue ==
    ListsCompared =>
        /\ \A i \in 1..(Len(differences) - 1) :
               JoinValue(i) = JoinValue(i + 1) \/ StrLess(JoinValue(i), JoinValue(i + 1))
        /\ \A k \in (DOMAIN dict_left) \cap (DOMAIN dict_right) :
               LET obj_diff == compare_json_objects(dict_left[k], dict_right[k])
                   emitted == RecordsOf(k, Len(differences))
               IN  /\ Len(emitted) = Len(obj_diff)
                   /\ \A i \in 1..Len(obj_diff) :
                          /\ emitted[i][K_left_value] = obj_diff[i][K_left_value]
                          /\ emitted[i][K_right_value] = obj_diff[i][K_right_value]
                          /\ emitted[i][K_status] = obj_diff[i][K_status]
                          /\ join_key # K_key => emitted[i][K_key] = obj_diff[i][K_key]
                   /\ \A i \in 1..(Len(obj_diff) - 1) :
                          StrLess(Val(obj_diff[i][K_key]), Val(obj_diff[i + 1][K_key]))

C11_Witness ==
    /\ ListsCompared
    /\ Len(differences) >= 3
    /\ JoinValue(1) = JoinValue(2)
    /\ JoinValue(2) # JoinValue(3)
    /\ ~ElementRecord(differences[1])

\* C12: when either list is empty the result is empty, whatever the join key
\* and the other list.
C12_EmptyListEmptyResult ==
    op = "compare_json_lists" /\ (Val(left) = << >> \/ Val(right) = << >>) =>
        differences = << >>

C12_Witness ==
    /\ op = "compare_json_lists"
    /\ Val(left) = << >>
    /\ Val(Keyed(right)) # << >>
    /\ differences = << >>

\* the elements of a list that no later element with the same join-key str follows
LastOfName(list) ==
    LET items == Val(list)
        last(i) == \/ ~HasKey(items[i], join_key)
                   \/ \A j \in (i + 1)..Len(items) :
                          HasKey(items[j], join_key) =>
                              str(GetItem(items[j], join_key)) # str(GetItem(items[i], join_key))
        RECURSIVE Keep(_)
        Keep(n) == IF n = 0 THEN << >>
                   ELSE IF last(n) THEN Append(Keep(n - 1), items[n])
                   ELSE Keep(n - 1)
    IN  PyList(Keep(Len(items)))

\* the elements that a later element with the same join-key str follows
Shadowed(list) ==
    {Val(list)[i] : i \in 1..Len(Val(list))} \ {Val(LastOfName(list))[i] : i \in 1..Len(Val(LastOfName(list)))}

\* C19: of several elements of one side whose join-key values have the same
\* str, only the last one counts: the result is the one obtained without
\* the earlier ones, and no record reports an earlier one.
C19_LastDuplicateWins ==
    ListsCompared =>
        /\ differences = compare_json_lists(LastOfName(left), LastOfName(right), join_key)
        /\ \A i \in 1..Len(differences) :
               /\ differences[i][K_left_value] \notin Shadowed(left)
               /\ differences[i][K_right_value] \notin Shadowed(right)

C19_Witness ==
    /\ ListsCompared
    /\ Shadowed(left) # {}
    /\ differences # << >>
    /\ \E i \in 1..Len(differences) : ElementRecord(differences[i])

(***************************************************************************)
(* get_potential_join_keys on two documents                                *)
(***************************************************************************)
MaxSample == 2

SampleSizes == (1..MaxSample) \cup {DefaultSampleSize}

\* objects over the field names "a", "code" and "id", one with a nested "id"
JoinObjects ==
    { PyDict(<< >>),
      PyDict(<< <<(<<"a">>), PyInt(1)>> >>),
      PyDict(<< <<K_id, PyInt(1)>> >>),
      PyDict(<< <<K_id, PyInt(1)>>, <<K_code, PyInt(1)>> >>),
      PyDict(<< <<(<<"a">>), PyInt(1)>>, <<K_id, PyInt(1)>>, <<K_code, PyInt(1)>> >>),
      PyDict(<< <<(<<"a">>), PyDict(<< <<K_id, PyInt(1)>> >>)>> >>) }

JoinElements == JoinObjects \cup {PyInt(1)}

JoinDocs ==
    {PyList(q) : q \in SeqsUpTo(JoinElements, MaxElems)}
    \cup JoinObjects \cup {PyInt(1), PyNone}

\* number of elements of an array, one for any other document
Size(doc) == IF Tag(doc) = "arr" THEN Len(Val(doc)) ELSE 1

InitJoinKeys ==
    /\ left \in JoinDocs
    /\ right \in JoinDocs
    /\ Size(left) + Size(right) <= MaxElems
    /\ join_key = << >>
    /\ sample_size \in SampleSizes
    /\ NoResults

GetPotentialJoinKeys ==
    /\ op = "init"
    /\ IF get_potential_join_keys_raises(left, right, sample_size)
       THEN /\ raised' = "AttributeError"
            /\ UNCHANGED potential_join_keys
       ELSE /\ raised' = "none"
            /\ potential_join_keys' = get_potential_join_keys(left, right, sample_size)
    /\ op' = "get_potential_join_keys"
    /\ UNCHANGED <<left, right, join_key, sample_size, flattened, differences,
                   all_keys, excluded_keys, filtered>>

NextJoinKeys == GetPotentialJoinKeys

SpecJoinKeys == InitJoinKeys /\ [][NextJoinKeys]_vars

(***************************************************************************)
(* Properties of get_potential_join_keys (checked under SpecJoinKeys)      *)
(***************************************************************************)
JoinKeysCalled == op = "get_potential_join_keys"

Returned == JoinKeysCalled /\ raised = "none"

\* the names of the returned sequence
ReturnedNames == {potential_join_keys[i] : i \in 1..Len(potential_join_keys)}

\* the first min(sample_size, length) elements of an array
Leading(doc) ==
    {Val(doc)[i] : i \in {n \in 1..Len(Val(doc)) : n <= sample_size}}

\* top-level field names of an element; a scalar element has none
FieldNames(x) ==
    IF Tag(x) = "obj" THEN {Val(x)[i][1] : i \in 1..Len(Val(x))} ELSE {}

\* field names that appear on every leading element of an array
OnEveryLeading(doc) ==
    {k \in UNION {FieldNames(x) : x \in Leading(doc)} :
        \A x \in Leading(doc) : k \in FieldNames(x)}

\* an array of objects with a non-object among its leading elements
MixedSample(doc) ==
    is_json_list_of_objects(doc) /\ \E x \in Leading(doc) : Tag(x) # "obj"

C14_ExactlyCommonNames ==
    JoinKeysCalled /\ is_json_list_of_objects(left) /\ is_json_list_of_objects(right)
    => /\ raised = "none"
       /\ ReturnedNames = OnEveryLeading(left) \cap OnEveryLeading(right)

PrioritySet == {K_id, K_name, K_key, K_code, K_uuid}

\* C15: the returned sequence has no duplicates, every name of the priority
\* set precedes every other name, and within each of the two groups the
\* names are in alphabetical (code point) order.
C15_PriorityThenAlphabetical ==
    Returned =>
        \A i \in 1..Len(potential_join_keys) : \A j \in 1..Len(potential_join_keys) :
            i < j =>
                LET x == potential_join_keys[i]
                    y == potential_join_keys[j]
                IN  /\ x # y
                    /\ x \in PrioritySet \/ y \notin PrioritySet
                    /\ (x \in PrioritySet <=> y \in PrioritySet) => StrLess(x, y)

\* "code" came before "id" and both before the non-priority name "a"
C15_Witness ==
    Returned /\ potential_join_keys = <<K_code, K_id, <<"a">>>>

(***************************************************************************)
(* apply_filters on the records of a comparison                            *)
(***************************************************************************)
MaxExcluded == 2

\* paths a user can exclude; "a" is a proper prefix of the two others
ExcludableKeys == {<<"a">>, <<"a", ".", "b">>, <<"a", "[", "0", "]">>}

RightObjects ==
    {PyDict(<< >>), PyDict(<< <<(<<"a">>), PyInt(1)>> >>)}

InitFilter ==
    /\ left \in Objects
    /\ right \in RightObjects
    /\ join_key = << >>
    /\ sample_size = DefaultSampleSize
    /\ NoResults

ApplyFilters ==
    /\ op \in {"compare_json_objects", "apply_filters"}
    /\ \E excluded \in SeqsUpTo(ExcludableKeys, MaxExcluded) :
          /\ excluded_keys' = excluded
          /\ filtered' = apply_filters(differences, excluded)
    /\ op' = "apply_filters"
    /\ UNCHANGED <<left, right, join_key, sample_size, flattened, differences,
                   all_keys, potential_join_keys, raised>>

NextFilter == CompareObjects \/ ApplyFilters

SpecFilter == InitFilter /\ [][NextFilter]_vars

(***************************************************************************)
(* Properties of apply_filters (checked under SpecFilter)                  *)
(***************************************************************************)
FiltersApplied == op = "apply_filters"

ExcludedSet == {excluded_keys[i] : i \in 1..Len(excluded_keys)}

\* positions of the records whose key is not excluded
KeptPositions ==
    {i \in 1..Len(differences) : Val(differences[i][K_key]) \notin ExcludedSet}

\* the n-th kept position, counting from the front
NthKept(n) ==
    CHOOSE i \in KeptPositions : Cardinality({j \in KeptPositions : j < i}) = n - 1

\* C16: apply_filters returns exactly the records whose key is not one of
\* the excluded paths, in their original order; only an exact match removes
\* a record, and the records handed in are still the comparison's records.
C16_ExactMatchFilter ==
    FiltersApplied =>
        /\ Len(filtered) = Cardinality(KeptPositions)
        /\ \A n \in 1..Len(filtered) : filtered[n] = differences[NthKept(n)]
        /\ differences = compare_json_objects(left, right)

\* "a" was excluded: the record of "a" went, the record of "a.b" stayed
C16_Witness ==
    /\ FiltersApplied
    /\ <<"a">> \in ExcludedSet
    /\ <<"a", ".", "b">> \notin ExcludedSet
    /\ \E i \in 1..Len(differences) : Val(differences[i][K_key]) = <<"a">>
    /\ \E n \in 1..Len(filtered) : Val(filtered[n][K_key]) = <<"a", ".", "b">>
    /\ Len(filtered) >= 2

(***************************************************************************)
(* The five core operations called, and called again, on the same inputs   *)
(***************************************************************************)
\* list elements, one of them with a nested object
CoreElements ==
    { PyDict(<< >>),
      PyDict(<< <<K_id, PyInt(1)>> >>),
      PyDict(<< <<K_id, PyStr(<<"1">>)>> >>),
      PyDict(<< <<K_id, PyInt(1)>>, <<K_key, PyInt(1)>> >>),
      PyDict(<< <<K_id, PyInt(2)>>,
                <<(<<"a">>), PyDict(<< <<(<<"b">>), PyStr(<<"1">>)>> >>)>> >>) }

CoreLists == {PyList(q) : q \in SeqsUpTo(CoreElements, MaxElems)}

InitCore ==
    /\ left \in CoreLists
    /\ right \in CoreLists
    /\ Len(Val(left)) + Len(Val(right)) <= MaxElems
    /\ join_key \in JoinKeys
    /\ sample_size = DefaultSampleSize
    /\ NoResults

CallFlatten ==
    /\ op \in {"init", "flatten_json"}
    /\ flattened' = flatten_json(left, << >>)
    /\ op' = "flatten_json"
    /\ UNCHANGED <<left, right, join_key, sample_size, differences,
                   all_keys, potential_join_keys, excluded_keys, filtered, raised>>

CallGetAllKeys ==
    /\ op \in {"init", "get_all_keys"}
    /\ all_keys' = get_all_keys(left, << >>)
    /\ op' = "get_all_keys"
    /\ UNCHANGED <<left, right, join_key, sample_size, flattened, differences,
                   potential_join_keys, excluded_keys, filtered, raised>>

CallGetPotentialJoinKeys ==
    /\ op \in {"init", "get_potential_join_keys"}
    /\ IF get_potential_join_keys_raises(left, right, sample_size)
       THEN /\ raised' = "AttributeError"
            /\ UNCHANGED potential_join_keys
       ELSE /\ raised' = "none"
            /\ potential_join_keys' = get_potential_join_keys(left, right, sample_size)
    /\ op' = "get_potential_join_keys"
    /\ UNCHANGED <<left, right, join_key, sample_size, flattened, differences,
                   all_keys, excluded_keys, filtered>>

CallCompareObjects ==
    /\ op \in {"init", "compare_json_objects"}
    /\ differences' = compare_json_objects(left, right)
    /\ op' = "compare_json_objects"
    /\ UNCHANGED <<left, right, join_key, sample_size, flattened,
                   all_keys, potential_join_keys, excluded_keys, filtered, raised>>

\* item assignment d[k] = x on a dict that has the key k
SetItem(d, k, x) ==
    PyDict([i \in 1..Len(Val(d)) |->
               IF Val(d)[i][1] = k THEN <<k, x>> ELSE Val(d)[i]])

\* a list with item[join_key] = str(item[join_key]) done on every keyed item
Stringified(list, key) ==
    PyList([i \in 1..Len(Val(list)) |->
               IF HasKey(Val(list)[i], key)
               THEN SetItem(Val(list)[i], key, PyStr(str(GetItem(Val(list)[i], key))))
               ELSE Val(list)[i]])

\* compare_json_lists writing the join value's string into the items it pairs
CallCompareLists_in_place ==
    /\ op \in {"init", "compare_json_lists"}
    /\ differences' = compare_json_lists(left, right, join_key)
    /\ left' = Stringified(left, join_key)
    /\ right' = Stringified(right, join_key)
    /\ op' = "compare_json_lists"
    /\ UNCHANGED <<join_key, sample_size, flattened,
                   all_keys, potential_join_keys, excluded_keys, filtered, raised>>

CallCompareLists ==
    /\ op \in {"init", "compare_json_lists"}
    /\ differences' = compare_json_lists(left, right, join_key)
    /\ op' = "compare_json_lists"
    /\ UNCHANGED <<left, right, join_key, sample_size, flattened,
                   all_keys, potential_join_keys, excluded_keys, filtered, raised>>

NextCore ==
    \/ CallFlatten
    \/ CallGetAllKeys
    \/ CallGetPotentialJoinKeys
    \/ CallCompareObjects
    \/ CallCompareLists

SpecCore == InitCore /\ [][NextCore]_vars

(***************************************************************************)
(* Frame of the core operations (checked under SpecCore)                   *)
(***************************************************************************)
CoreResults == <<flattened, all_keys, potential_join_keys, differences, raised>>

Truthy(x) ==
    CASE Tag(x) = "null" -> FALSE
      [] Tag(x) = "bool" -> Val(x)
      [] Tag(x) \in {"int", "float"} -> Val(x) # 0
      [] OTHER -> Len(Val(x)) > 0

\* files a user uploads: arrays of objects, plain objects, an empty array
\* and an array of objects with a scalar behind the first element
FileDocs ==
    { PyList(<< PyDict(<< <<K_id, PyInt(1)>> >>) >>),
      PyList(<< PyDict(<< <<K_id, PyInt(2)>>, <<(<<"a">>), PyInt(1)>> >>) >>),
      PyList(<< PyDict(<< <<(<<"a">>), PyInt(1)>> >>) >>),
      PyList(<< PyDict(<< <<K_id, PyInt(1)>> >>), PyInt(1) >>),
      PyList(<< >>),
      PyDict(<< <<(<<"a">>), PyInt(1)>> >>) }

InitFileTab ==
    /\ left = PyNone
    /\ right = PyNone
    /\ join_key = << >>
    /\ sample_size = DefaultSampleSize
    /\ NoResults

BothListsOfObjects(l, r) ==
    is_json_list_of_objects(l) /\ is_json_list_of_objects(r)

\* the Comparison Options and the Compare button are drawn in this run
OptionsDrawn == Truthy(left) /\ Truthy(right) /\ raised = "none"

\* options of the join key selectbox; the empty entry and None are << >>
JoinKeyOptions ==
    {<< >>} \cup {potential_join_keys[i] : i \in 1..Len(potential_join_keys)}

\* a new pair of files: the script runs lines 162-185 on it
Upload ==
    \E l \in FileDocs, r \in FileDocs :
        /\ left' = l
        /\ right' = r
        /\ join_key' = << >>
        /\ op' = "upload"
        /\ IF Truthy(l) /\ Truthy(r)
           THEN /\ all_keys' = get_all_keys(l, << >>) \cup get_all_keys(r, << >>)
                /\ IF BothListsOfObjects(l, r)
                   THEN IF get_potential_join_keys_raises(l, r, sample_size)
                        THEN /\ raised' = "AttributeError"
                             /\ UNCHANGED potential_join_keys
                        ELSE /\ raised' = "none"
                             /\ potential_join_keys' =
                                    get_potential_join_keys(l, r, sample_size)
                   ELSE /\ raised' = "none"
                        /\ UNCHANGED potential_join_keys
           ELSE /\ raised' = "none"
                /\ UNCHANGED <<all_keys, potential_join_keys>>
        /\ UNCHANGED <<sample_size, flattened, differences, excluded_keys, filtered>>

\* the user picks an entry of the selectbox
SelectJoinKey ==
    /\ OptionsDrawn
    /\ potential_join_keys # << >>
    /\ \E k \in JoinKeyOptions : join_key' = k
    /\ op' = "select"
    /\ UNCHANGED <<left, right, sample_size, flattened, differences,
                   all_keys, potential_join_keys, excluded_keys, filtered, raised>>

\* the Compare button, lines 188-194
Compare ==
    /\ OptionsDrawn
    /\ IF BothListsOfObjects(left, right) /\ join_key # << >>
       THEN /\ differences' = compare_json_lists(left, right, join_key)
            /\ op' = "compare_json_lists"
       ELSE /\ differences' = compare_json_objects(left, right)
            /\ op' = "compare_json_objects"
    /\ excluded_keys' = << >>
    /\ UNCHANGED <<left, right, join_key, sample_size, flattened,
                   all_keys, potential_join_keys, filtered, raised>>

NextFileTab == Upload \/ SelectJoinKey \/ Compare

SpecFileTab == InitFileTab /\ [][NextFileTab]_vars

(***************************************************************************)
(* Properties of the File Comparison tab (checked under SpecFileTab)       *)
(***************************************************************************)
\* the selectbox is drawn with join keys to choose from
JoinKeysOffered == OptionsDrawn /\ potential_join_keys # << >>

\* C18: after any sequence of file-pair loads, join keys are offered only
\* when both current documents are arrays of objects, and they are the keys
\* computed from the current pair; compare_json_lists runs only when both
\* are arrays of objects and a non-empty join key is selected, otherwise
\* compare_json_objects runs on the whole documents.
C18_JoinKeysOfCurrentPair ==
    /\ JoinKeysOffered =>
          /\ BothListsOfObjects(left, right)
          /\ potential_join_keys = get_potential_join_keys(left, right, DefaultSampleSize)
    /\ op = "compare_json_lists" =>
          /\ BothListsOfObjects(left, right) /\ join_key # << >>
          /\ differences = compare_json_lists(left, right, join_key)
    /\ op = "compare_json_objects" =>
          /\ ~(BothListsOfObjects(left, right) /\ join_key # << >>)
          /\ differences = compare_json_objects(left, right)

====
